---- MODULE Spec2Model ----
(***************************************************************************)
(* Keephy Plans Service (src/src/index.js): the Plan collection and the    *)
(* handlers of /api/plans, with the behaviour of the Mongoose calls they   *)
(* make (schema defaults and validation, ObjectId casting, update casting, *)
(* hydration, and save() writing only the paths a document changed).       *)
(***************************************************************************)
EXTENDS Integers, Sequences, FiniteSets, TLC

(* ------------------------------ bounds -------------------------------- *)
MaxPlans == 2
MaxClock == 1
MaxInflight == 1

(* --------------------------- JSON / BSON values ----------------------- *)
Undef == [t |-> "undefined"]
Null == [t |-> "null"]
Str(s) == [t |-> "string", v |-> s]
Num(n) == [t |-> "number", v |-> n]
Bool(b) == [t |-> "boolean", v |-> b]
Arr(s) == [t |-> "array", v |-> s]
Obj(f) == [t |-> "object", v |-> f]

\* JavaScript truthiness, as used by `!name` and `x || default`.
Truthy(x) ==
  CASE x.t \in {"undefined", "null"} -> FALSE
    [] x.t = "string" -> x.v # ""
    [] x.t = "number" -> x.v # 0
    [] x.t = "boolean" -> x.v
    [] OTHER -> TRUE

\* JavaScript `x || d`.
OrElse(x, d) == IF Truthy(x) THEN x ELSE d

(* ------------------------------ planSchema ---------------------------- *)
LimitKeys == {"franchises", "forms", "submissions", "staff", "storage", "apiCalls"}

UpdateKeys ==
  {"name", "description", "price", "currency", "interval", "features", "limits",
   "stripePriceId", "stripeProductId", "isActive", "isPopular", "sortOrder"}

DocKeys == UpdateKeys \cup {"createdAt", "updatedAt"}

Intervals == {"monthly", "yearly", "lifetime"}

LimitDefault(k) ==
  CASE k = "franchises" -> 1
    [] k = "forms" -> 5
    [] k = "submissions" -> 100
    [] k = "staff" -> 5
    [] k = "storage" -> 1024
    [] k = "apiCalls" -> 1000

\* The top-level paths of planSchema that declare a default (a Mongoose array
\* path defaults to the empty array).
DefaultKeys ==
  {"currency", "interval", "features", "isActive", "isPopular", "sortOrder",
   "createdAt", "updatedAt"}

SchemaDefault(k, t) ==
  CASE k = "currency" -> Str("USD")
    [] k = "interval" -> Str("monthly")
    [] k = "features" -> Arr(<<>>)
    [] k = "isActive" -> Bool(TRUE)
    [] k = "isPopular" -> Bool(FALSE)
    [] k = "sortOrder" -> Num(0)
    [] k \in {"createdAt", "updatedAt"} -> Num(t)

NoLimits == Obj([k \in LimitKeys |-> Undef])

\* Defaults applied to limits as a whole: none once the request supplies any.
LimitsDefaultsWhole(l) ==
  IF l = Undef \/ l = NoLimits THEN Obj([k \in LimitKeys |-> Num(LimitDefault(k))]) ELSE l

\* The nested defaults of `limits`: each key is defaulted on its own, and only
\* where it is undefined (null is a value).
LimitsDefaults(l) ==
  IF l = Undef THEN Obj([k \in LimitKeys |-> Num(LimitDefault(k))])
  ELSE IF l.t = "object"
    THEN Obj([k \in LimitKeys |->
           IF l.v[k] = Undef THEN Num(LimitDefault(k)) ELSE l.v[k]])
    ELSE l

\* Mongoose fills every undefined path that has a default, when a document is
\* constructed (new Plan) and when one is hydrated from a query result.
ApplyDefaults(d, t) ==
  [k \in DocKeys |->
    IF k = "limits" THEN LimitsDefaults(d[k])
    ELSE IF d[k] = Undef /\ k \in DefaultKeys THEN SchemaDefault(k, t)
    ELSE d[k]]

\* The validators that run on save(): required name and price, interval enum.
\* (A required String rejects the empty string.)
Validate(d) ==
  /\ d.name.t = "string" /\ d.name.v # ""
  /\ d.price.t = "number"
  /\ (d.interval.t = "string" => d.interval.v \in Intervals)

(* ------------------------------ identifiers --------------------------- *)
\* An identifier is a positive number when it is a well-formed ObjectId (the
\* n-th created plan gets n); MalformedId stands for any string that does not
\* cast to an ObjectId.
MalformedId == -1
NoId == 0
IsObjectId(id) == id >= 1
IdInputs == (1 .. MaxPlans + 1) \cup {MalformedId}

(* ------------------------------ state ---------------------------------- *)
VARIABLES
  plans,         \* the Plan collection: plans[i] is the stored document of id i
  now,           \* Date.now()
  inflight,      \* DELETE requests between their findById and their save
  last,          \* the last request answered and its response
  omitUndefined, \* whether the installed Mongoose strips undefined update keys
  lastMutation,  \* history: per id, the time of its last successful mutation
  everDeleted,   \* history: ids that a DELETE (DeleteSave) has answered 200 for
  deletedClean,  \* history: ids whose last DELETE answered 200 with no update
                 \* of the id since that DELETE read the document
  deletedTwice   \* history: ids a DELETE answered 200 for, having read the
                 \* document right after another DELETE answered 200 for it,
                 \* with no update of the id overlapping either

vars ==
  <<plans, now, inflight, last, omitUndefined, lastMutation, everDeleted, deletedClean,
    deletedTwice>>

Ids == 1 .. Len(plans)

Idle == [st |-> "idle"]

EmptyBody == [k \in UpdateKeys |-> Undef]
NoQuery == [active |-> Undef, popular |-> Undef]

Response(op, id, body, query, status, res) ==
  [op |-> op, id |-> id, body |-> body, query |-> query, status |-> status, res |-> res]

Failure(msg) == [success |-> FALSE, error |-> msg]

\* A document as a query returns it: hydrated, with its _id.
Hydrate(i, raw) == [id |-> i, doc |-> ApplyDefaults(raw, now)]


(* ------------------------------ request inputs ------------------------ *)
BasicBody == [EmptyBody EXCEPT !["name"] = Str("Basic"), !["price"] = Num(1)]

FreeBody == [EmptyBody EXCEPT !["name"] = Str("Free"), !["price"] = Num(0)]

FullBody ==
  [k \in UpdateKeys |->
    CASE k = "name" -> Str("Pro")
      [] k = "description" -> Str("for teams")
      [] k = "price" -> Num(0)
      [] k = "currency" -> Str("EUR")
      [] k = "interval" -> Str("yearly")
      [] k = "features" -> Arr(<<"sso">>)
      [] k = "limits" -> Obj([NoLimits.v EXCEPT !["franchises"] = Num(3)])
      [] k = "stripePriceId" -> Str("price_1")
      [] k = "stripeProductId" -> Str("prod_1")
      [] k = "isActive" -> Bool(TRUE)
      [] k = "isPopular" -> Bool(TRUE)
      [] k = "sortOrder" -> Num(1)]

PriceBody == [EmptyBody EXCEPT !["price"] = Num(2)]

\* Bodies a create rejects (400) or fails on (500), and bodies it accepts.
BadCreateBodies ==
  { EmptyBody,
    [EmptyBody EXCEPT !["name"] = Str("Basic")],
    [EmptyBody EXCEPT !["price"] = Num(1)],
    [EmptyBody EXCEPT !["description"] = Str("no name, no price"),
                      !["sortOrder"] = Num(1)],
    [BasicBody EXCEPT !["name"] = Str("")],
    [BasicBody EXCEPT !["price"] = Null],
    [BasicBody EXCEPT !["interval"] = Str("weekly")] }

GoodCreateBodies ==
  { BasicBody, FreeBody, FullBody,
    [BasicBody EXCEPT !["interval"] = Str("lifetime"), !["sortOrder"] = Num(1)] }

CreateBodies == BadCreateBodies \cup GoodCreateBodies

UpdateBodies == {EmptyBody, PriceBody, FullBody}

Queries ==
  [active : {Undef, Str("true"), Str("false")}, popular : {Undef, Str("true")}]

(* ------------------------------ POST /api/plans ----------------------- *)
\* A check that forgets the price.
CreateRejectsNameOnly(body) == ~Truthy(body.name)

\* if (!name || price === undefined)
CreateRejects(body) == ~Truthy(body.name) \/ body.price = Undef

\* The object handed to new Plan(...): isActive is not read from the body.
PlanInput(body) ==
  [k \in DocKeys |->
    CASE k \in {"name", "description", "price", "stripePriceId", "stripeProductId"}
           -> body[k]
      [] k = "currency" -> OrElse(body[k], Str("USD"))
      [] k = "interval" -> OrElse(body[k], Str("monthly"))
      [] k = "features" -> OrElse(body[k], Arr(<<>>))
      [] k = "limits" -> OrElse(body[k], NoLimits)
      [] k = "isPopular" -> OrElse(body[k], Bool(FALSE))
      [] k = "sortOrder" -> OrElse(body[k], Num(0))
      [] OTHER -> Undef]

NewPlan(body) == ApplyDefaults(PlanInput(body), now)

Create(body) ==
  /\ IF CreateRejects(body)
       THEN /\ last' = Response("create", NoId, body, NoQuery, 400,
                                Failure("Plan name and price are required"))
            /\ UNCHANGED <<plans, lastMutation>>
       ELSE IF ~Validate(NewPlan(body))
         THEN /\ last' = Response("create", NoId, body, NoQuery, 500,
                                  Failure("Failed to create plan"))
              /\ UNCHANGED <<plans, lastMutation>>
         ELSE /\ Len(plans) < MaxPlans
              /\ plans' = Append(plans, NewPlan(body))
              /\ last' = Response("create", NoId, body, NoQuery, 201,
                           [success |-> TRUE,
                            data |-> [id |-> Len(plans) + 1, doc |-> NewPlan(body)]])
              /\ lastMutation' = Append(lastMutation, now)
  /\ UNCHANGED <<now, inflight, omitUndefined, everDeleted, deletedClean, deletedTwice>>

(* ------------------------------ GET /api/plans ------------------------ *)
\* A filter that drops the active parameter.
MatchesPopularOnly(d, q) == q.popular = Str("true") => d.isPopular = Bool(TRUE)

\* The filter built from req.query, matched against the stored documents.
Matches(d, q) ==
  /\ (q.active = Str("true") => d.isActive = Bool(TRUE))
  /\ (q.popular = Str("true") => d.isPopular = Bool(TRUE))

\* MongoDB's comparison of two values of a sort key: null and missing sort
\* before every number.
BsonLeq(x, y) ==
  IF x.t = "number" /\ y.t = "number" THEN x.v <= y.v ELSE x.t # "number"

\* The sort keys taken in the other order: .sort({ price: 1, sortOrder: 1 })
SortLeqPriceFirst(a, b) ==
  \/ ~BsonLeq(b.price, a.price)
  \/ /\ BsonLeq(a.price, b.price)
     /\ BsonLeq(a.sortOrder, b.sortOrder)

\* .sort({ sortOrder: 1, price: 1 })
SortLeq(a, b) ==
  \/ ~BsonLeq(b.sortOrder, a.sortOrder)
  \/ /\ BsonLeq(a.sortOrder, b.sortOrder)
     /\ BsonLeq(a.price, b.price)

\* The orders find().sort() may return the matching documents in (the order of
\* documents with equal keys is not fixed).
FindSorted(q) ==
  LET M == {i \in Ids : Matches(plans[i], q)}
  IN {s \in [1 .. Cardinality(M) -> M] :
        /\ \A i, j \in DOMAIN s : i # j => s[i] # s[j]
        /\ \A i, j \in DOMAIN s : i < j => SortLeq(plans[s[i]], plans[s[j]])}

ListResponses(q) ==
  { Response("list", NoId, EmptyBody, q, 200,
      [success |-> TRUE,
       data |-> [i \in DOMAIN s |-> Hydrate(s[i], plans[s[i]])],
       count |-> Len(s)]) : s \in FindSorted(q) }

List(q) ==
  /\ \E resp \in ListResponses(q) : last' = resp
  /\ UNCHANGED <<plans, now, inflight, omitUndefined, lastMutation, everDeleted,
                 deletedClean, deletedTwice>>

(* ------------------------------ GET /api/plans/:id -------------------- *)
\* Plan.findById(id): a CastError for a malformed id (caught: 500), null for an
\* id that resolves to nothing (404).
FindStatus(id) ==
  IF ~IsObjectId(id) THEN 500 ELSE IF id \notin Ids THEN 404 ELSE 200

GetResponse(id) ==
  Response("get", id, EmptyBody, NoQuery, FindStatus(id),
    CASE FindStatus(id) = 500 -> Failure("Failed to fetch plan")
      [] FindStatus(id) = 404 -> Failure("Plan not found")
      [] OTHER -> [success |-> TRUE, data |-> Hydrate(id, plans[id])])

Get(id) ==
  /\ last' = GetResponse(id)
  /\ UNCHANGED <<plans, now, inflight, omitUndefined, lastMutation, everDeleted,
                 deletedClean, deletedTwice>>

(* ------------------------------ GET /api/plans/:id/features ----------- *)
FeaturesResponse(id) ==
  Response("features", id, EmptyBody, NoQuery, FindStatus(id),
    CASE FindStatus(id) = 500 -> Failure("Failed to fetch plan features")
      [] FindStatus(id) = 404 -> Failure("Plan not found")
      [] OTHER -> [success |-> TRUE,
                   data |-> [features |-> Hydrate(id, plans[id]).doc.features,
                             limits |-> Hydrate(id, plans[id]).doc.limits]])

Features(id) ==
  /\ last' = FeaturesResponse(id)
  /\ UNCHANGED <<plans, now, inflight, omitUndefined, lastMutation, everDeleted,
                 deletedClean, deletedTwice>>

(* ------------------------------ PUT /api/plans/:id -------------------- *)
\* An update document that leaves updatedAt out.
UpdateDocStale(body) ==
  [k \in UpdateKeys \cup {"updatedAt"} |-> IF k = "updatedAt" THEN Undef ELSE body[k]]

\* The update document: every destructured field, undefined when the body
\* omits it, and updatedAt: new Date().
UpdateDoc(body) ==
  [k \in UpdateKeys \cup {"updatedAt"} |->
    IF k = "updatedAt" THEN Num(now) ELSE body[k]]

\* The keys of the $set Mongoose sends: with omitUndefined (Mongoose 6 and
\* later, always) the undefined keys are stripped.
SetKeys(u) == {k \in DOMAIN u : ~(omitUndefined /\ u[k] = Undef)}

\* The value sent for a key: undefined is serialized as null.
SetValue(u, k) == IF u[k] = Undef THEN Null ELSE u[k]

\* findByIdAndUpdate's write: $set of the cast update on the stored document.
ApplySet(d, u) ==
  [k \in DocKeys |-> IF k \in SetKeys(u) THEN SetValue(u, k) ELSE d[k]]

\* history: the deletes in flight on id are overlapped by this update (the
\* first two overlapping bodies are kept).
MarkOverlap(id, body) ==
  [r \in DOMAIN inflight |->
    IF inflight[r].st = "loaded" /\ inflight[r].id = id /\ Len(inflight[r].overlap) < 2
      THEN [inflight[r] EXCEPT !.overlap = Append(@, body)]
      ELSE inflight[r]]

Update(id, body) ==
  /\ IF FindStatus(id) = 200
       THEN /\ plans' = [plans EXCEPT ![id] = ApplySet(@, UpdateDoc(body))]
            /\ last' = Response("update", id, body, NoQuery, 200,
                 [success |-> TRUE,
                  data |-> [id |-> id,
                            doc |-> ApplyDefaults(ApplySet(plans[id], UpdateDoc(body)), now)]])
            /\ lastMutation' = [lastMutation EXCEPT ![id] = now]
            /\ deletedClean' = deletedClean \ {id}
            /\ inflight' = MarkOverlap(id, body)
       ELSE /\ last' = Response("update", id, body, NoQuery, FindStatus(id),
                 IF FindStatus(id) = 404 THEN Failure("Plan not found")
                 ELSE Failure("Failed to update plan"))
            /\ UNCHANGED <<plans, lastMutation, deletedClean, inflight>>
  /\ UNCHANGED <<now, omitUndefined, everDeleted, deletedTwice>>

(* ------------------------------ DELETE /api/plans/:id ----------------- *)
\* A toggle in place of the assignment: plan.isActive = !plan.isActive
SoftDeleteToggle(doc) == Bool(~Truthy(ApplyDefaults(doc, now).isActive))

\* plan.isActive = false
SoftDeleteValue(doc) == Bool(FALSE)

\* The top-level paths save() sends in its $set: isActive when the assignment
\* changed the value the document was loaded with, and every path that was
\* missing in the loaded document and got a default on hydration.
SaveKeys(raw) ==
  {k \in {"isActive"} : ApplyDefaults(raw, now).isActive # SoftDeleteValue(raw)}
    \cup {k \in DefaultKeys : raw[k] = Undef}

\* The limits.* paths save() sends: those defaulted on hydration.
SaveLimitKeys(raw) ==
  IF raw.limits = Undef THEN LimitKeys
  ELSE IF raw.limits.t = "object" THEN {k \in LimitKeys : raw.limits.v[k] = Undef}
  ELSE {}

\* MongoDB refuses $set of limits.x on a document whose limits is null.
SaveFails(raw, cur) ==
  SaveLimitKeys(raw) # {} /\ cur.limits.t \notin {"object", "undefined"}

\* A save() that writes the whole document it loaded back over the stored one.
SaveApplyWhole(raw, cur) ==
  [ApplyDefaults(raw, now) EXCEPT !["isActive"] = SoftDeleteValue(raw)]

\* The stored document after save()'s updateOne: the paths of the delta are
\* written on the document as it is in the store now, all others are kept.
SaveApply(raw, cur) ==
  [k \in DocKeys |->
    IF k = "isActive" /\ k \in SaveKeys(raw) THEN SoftDeleteValue(raw)
    ELSE IF k = "limits" /\ SaveLimitKeys(raw) # {}
      THEN Obj([x \in LimitKeys |->
             IF x \in SaveLimitKeys(raw) THEN Num(LimitDefault(x))
             ELSE IF cur.limits = Undef THEN Undef ELSE cur.limits.v[x]])
    ELSE IF k \in SaveKeys(raw) THEN SchemaDefault(k, now)
    ELSE cur[k]]

DeleteFailure(id) ==
  Response("delete", id, EmptyBody, NoQuery, FindStatus(id),
    IF FindStatus(id) = 404 THEN Failure("Plan not found")
    ELSE Failure("Failed to delete plan"))

DeleteSuccess(id) ==
  Response("delete", id, EmptyBody, NoQuery, 200,
    [success |-> TRUE, message |-> "Plan deleted successfully"])

\* const plan = await Plan.findById(req.params.id): the handler answers at once
\* when that throws or finds nothing, and otherwise holds the document it read
\* until its save() runs.
DeleteFind(r, id) ==
  /\ inflight[r] = Idle
  /\ IF FindStatus(id) = 200
       THEN /\ inflight' = [inflight EXCEPT ![r] =
                 [st |-> "loaded", id |-> id, raw |-> plans[id], overlap |-> <<>>,
                  after |-> (last = DeleteSuccess(id) /\ id \in deletedClean)]]
            /\ UNCHANGED last
       ELSE /\ last' = DeleteFailure(id)
            /\ UNCHANGED inflight
  /\ UNCHANGED <<plans, now, omitUndefined, lastMutation, everDeleted, deletedClean,
                 deletedTwice>>

\* plan.isActive = false; await plan.save(); res.json(...)
DeleteSave(r) ==
  /\ inflight[r].st = "loaded"
  /\ LET id == inflight[r].id
         raw == inflight[r].raw
     IN IF SaveFails(raw, plans[id])
          THEN /\ last' = Response("delete", id, EmptyBody, NoQuery, 500,
                            Failure("Failed to delete plan"))
               /\ UNCHANGED <<plans, lastMutation, everDeleted, deletedClean,
                              deletedTwice>>
          ELSE /\ plans' = [plans EXCEPT ![id] = SaveApply(raw, @)]
               /\ last' = DeleteSuccess(id)
               /\ lastMutation' = [lastMutation EXCEPT ![id] = now]
               /\ everDeleted' = everDeleted \cup {id}
               /\ deletedClean' =
                    IF inflight[r].overlap = <<>> THEN deletedClean \cup {id}
                    ELSE deletedClean
               /\ deletedTwice' =
                    IF inflight[r].after /\ inflight[r].overlap = <<>>
                      THEN deletedTwice \cup {id}
                      ELSE deletedTwice
  /\ inflight' = [inflight EXCEPT ![r] = Idle]
  /\ UNCHANGED <<now, omitUndefined>>

\* The whole handler with no other request served between its findById and its
\* save(): the document written on is the document read. (The histories of
\* DELETE requests are kept for the interleaved handler, DeleteFind and
\* DeleteSave.)
Delete(id) ==
  /\ IF FindStatus(id) = 200
       THEN /\ plans' = [plans EXCEPT ![id] = SaveApply(@, @)]
            /\ last' = DeleteSuccess(id)
            /\ lastMutation' = [lastMutation EXCEPT ![id] = now]
       ELSE /\ last' = DeleteFailure(id)
            /\ UNCHANGED <<plans, lastMutation>>
  /\ UNCHANGED <<now, inflight, omitUndefined, everDeleted, deletedClean, deletedTwice>>

(* ------------------------------ time ----------------------------------- *)
Tick ==
  /\ now < MaxClock
  /\ now' = now + 1
  /\ UNCHANGED <<plans, inflight, last, omitUndefined, lastMutation, everDeleted,
                 deletedClean, deletedTwice>>

(* ------------------------------ specifications ------------------------- *)
Init ==
  /\ plans = <<>>
  /\ now = 0
  /\ inflight = [r \in 1 .. MaxInflight |-> Idle]
  /\ last = Response("none", NoId, EmptyBody, NoQuery, 0, [success |-> TRUE])
  /\ omitUndefined \in BOOLEAN
  /\ lastMutation = <<>>
  /\ everDeleted = {}
  /\ deletedClean = {}
  /\ deletedTwice = {}

\* Concurrent requests: a DELETE's findById and save() interleave with the
\* other writers.
Next ==
  \/ \E body \in {BasicBody} : Create(body)
  \/ \E id \in IdInputs, body \in {EmptyBody, FullBody} : Update(id, body)
  \/ \E r \in 1 .. MaxInflight, id \in IdInputs : DeleteFind(r, id)
  \/ \E r \in 1 .. MaxInflight : DeleteSave(r)

Spec == Init /\ [][Next]_vars

\* Creates alone, over every kind of body.
NextCreate ==
  \/ \E body \in CreateBodies : Create(body)
  \/ Tick

SpecCreate == Init /\ [][NextCreate]_vars

\* The writers, one request at a time, as time passes.
NextWrite ==
  \/ \E body \in {BasicBody} : Create(body)
  \/ \E id \in IdInputs, body \in UpdateBodies : Update(id, body)
  \/ \E id \in IdInputs : Delete(id)
  \/ Tick

SpecWrite == Init /\ [][NextWrite]_vars

\* Every operation, one request at a time.
NextRead ==
  \/ \E body \in {EmptyBody, BasicBody, FreeBody} : Create(body)
  \/ \E id \in IdInputs, body \in {EmptyBody, FullBody} : Update(id, body)
  \/ \E id \in IdInputs : Delete(id)
  \/ \E q \in Queries : List(q)
  \/ \E id \in IdInputs : Get(id)
  \/ \E id \in IdInputs : Features(id)

SpecRead == Init /\ [][NextRead]_vars

(* ------------------------------ properties ----------------------------- *)
MissingNameOrPrice(body) == body.name = Undef \/ body.price = Undef

UnfilteredCounts == {resp.res.count : resp \in ListResponses(NoQuery)}

\* C1: a create whose body lacks name or lacks price is answered 400 with
\* success=false, and it leaves the collection as it was: no record is
\* persisted and the unfiltered list count is the same before and after.
C1_CreateMissingRejected ==
  [][(last'.op = "create" /\ MissingNameOrPrice(last'.body))
       => /\ last'.status = 400
          /\ last'.res.success = FALSE
          /\ plans' = plans
          /\ UnfilteredCounts' = UnfilteredCounts]_vars

C1_Witness ==
  /\ last.op = "create"
  /\ last.body.name # Undef /\ last.body.price = Undef
  /\ last.status = 400
  /\ Len(plans) >= 1

\* A valid create payload: a non-empty name, a numeric price, and an interval,
\* when given, of the enumeration.
ValidPayload(body) ==
  /\ body.name.t = "string" /\ body.name.v # ""
  /\ body.price.t = "number"
  /\ body.interval = Undef \/ (body.interval.t = "string" /\ body.interval.v \in Intervals)

DocumentedDefault(k) ==
  CASE k = "currency" -> Str("USD")
    [] k = "interval" -> Str("monthly")
    [] k = "features" -> Arr(<<>>)
    [] k = "isActive" -> Bool(TRUE)
    [] k = "isPopular" -> Bool(FALSE)
    [] k = "sortOrder" -> Num(0)

DocumentedLimits ==
  [franchises |-> 1, forms |-> 5, submissions |-> 100, staff |-> 5,
   storage |-> 1024, apiCalls |-> 1000]

CreatedAsDocumented(body, doc) ==
  /\ doc.name = body.name
  /\ doc.price = body.price
  /\ \A k \in {"currency", "interval", "features", "isActive", "isPopular", "sortOrder"} :
       body[k] = Undef => doc[k] = DocumentedDefault(k)
  /\ doc.limits.t = "object"
  /\ \A x \in LimitKeys :
       (body.limits = Undef \/ body.limits.v[x] = Undef)
         => doc.limits.v[x] = Num(DocumentedLimits[x])

\* C5: a create with a valid payload (name and price set) is answered 201; the
\* record returned is the record persisted, under a new id; it has the name
\* and price supplied, and every optional field the request omits has its
\* documented default, each limit on its own.
C5_CreateDefaults ==
  [][(last'.op = "create" /\ ValidPayload(last'.body) /\ last' # last)
       => /\ last'.status = 201
          /\ last'.res.success = TRUE
          /\ last'.res.data.id = Len(plans) + 1
          /\ plans' = Append(plans, last'.res.data.doc)
          /\ CreatedAsDocumented(last'.body, last'.res.data.doc)]_vars

C5_Witness ==
  /\ last.op = "create" /\ last.status = 201
  /\ last.body.limits # Undef
  /\ last.body.limits.v["franchises"] # Undef
  /\ last.body.limits.v["forms"] = Undef
  /\ plans[Len(plans)].limits.v["forms"] = Num(5)

\* C2: GET, PUT and DELETE /api/plans/:id with a malformed identifier answer
\* 404, as they do for a well-formed identifier that resolves to no record.
C2_MalformedIdNotFound ==
  (last.op \in {"get", "update", "delete"} /\ last.id = MalformedId) => last.status = 404

\* C3: every record's updatedAt is the time of its last successful mutation
\* (create, update or soft-delete).
C3_UpdatedAtIsLastMutation ==
  \A i \in Ids : plans[i].updatedAt = Num(lastMutation[i])

UpdateStep ==
  /\ last'.op = "update" /\ last'.status = 200
  /\ <<last, plans>>' # <<last, plans>>

\* What every successful update does, whatever it does with the omitted fields.
UpdateFrame(id) ==
  /\ Len(plans') = Len(plans)
  /\ \A i \in Ids : i # id => plans'[i] = plans[i]
  /\ plans'[id].createdAt = plans[id].createdAt
  /\ last'.res.success = TRUE
  /\ last'.res.data.id = id
  /\ \A k \in DocKeys \ {"limits"} :
       plans'[id][k] # Undef => last'.res.data.doc[k] = plans'[id][k]

\* C6 as stated: a successful update gives every supplied field the supplied
\* value and leaves every field the request omits absent or null; id and
\* createdAt are unchanged and the post-update record is returned.
C6_FullReplace ==
  [][UpdateStep =>
       /\ UpdateFrame(last'.id)
       /\ \A k \in UpdateKeys :
            IF last'.body[k] # Undef
              THEN plans'[last'.id][k] = last'.body[k]
              ELSE plans'[last'.id][k] \in {Undef, Null}]_vars

\* C6 amended: a successful update gives every supplied field the supplied
\* value; the fields the request omits all keep their previous values where
\* Mongoose strips undefined update keys (6 and later) and are all stored as
\* null where it does not (5.x); updatedAt becomes the time of the update; id
\* and createdAt are unchanged and the post-update record is returned.
C6_UpdateSuppliedFields ==
  [][UpdateStep =>
       /\ UpdateFrame(last'.id)
       /\ plans'[last'.id].updatedAt = Num(now)
       /\ \A k \in UpdateKeys :
            last'.body[k] # Undef => plans'[last'.id][k] = last'.body[k]
       /\ \/ \A k \in UpdateKeys :
               last'.body[k] = Undef => plans'[last'.id][k] = plans[last'.id][k]
          \/ \A k \in UpdateKeys :
               last'.body[k] = Undef => plans'[last'.id][k] = Null]_vars

C6_Witness ==
  /\ last.op = "update" /\ last.status = 200
  /\ last.body.price # Undef /\ last.body.name = Undef
  /\ plans[last.id].price = last.body.price
  /\ plans[last.id].name = Str("Pro")
  /\ plans[last.id].updatedAt # plans[last.id].createdAt

\* C7: a successful response is { success: true, data }, with count on list
\* responses only; a failure response is { success: false, error }.
C7_Envelope ==
  last.op # "none" =>
    IF last.status \in {200, 201}
      THEN /\ last.res.success = TRUE
           /\ "data" \in DOMAIN last.res
           /\ ("count" \in DOMAIN last.res) = (last.op = "list")
      ELSE /\ last.res.success = FALSE
           /\ "error" \in DOMAIN last.res

\* x comes no later than y in ascending order (a null key, which only an update
\* that nulls the field leaves, comes before every number).
Ascending(x, y) ==
  /\ (x.t = "number" /\ y.t = "number") => x.v <= y.v
  /\ y.t # "number" => x.t # "number"

ListedActive(id) ==
  \E q \in Queries :
    /\ q.active = Str("true")
    /\ \E resp \in ListResponses(q) :
         \E i \in DOMAIN resp.res.data : resp.res.data[i].id = id

GetShowsInactive(id) ==
  /\ GetResponse(id).status = 200
  /\ GetResponse(id).res.data.id = id
  /\ GetResponse(id).res.data.doc.isActive = Bool(FALSE)

\* C4 as stated: once a DELETE of a record has answered 200, no list filtered
\* by active=true holds the record, and GET by its id answers 200 with
\* isActive=false; the record stays in the collection.
C4_DeletedForGood ==
  \A id \in everDeleted : id \in Ids /\ ~ListedActive(id) /\ GetShowsInactive(id)

\* C4 amended: once a DELETE of a record has answered 200, and until an update
\* of that record that ran after the DELETE read it, no list filtered by
\* active=true holds the record, and GET by its id answers 200 with
\* isActive=false; the record stays in the collection.
C4_DeletedUntilUpdated ==
  \A id \in deletedClean : id \in Ids /\ ~ListedActive(id) /\ GetShowsInactive(id)

C4_Witness ==
  \E id \in deletedClean, other \in Ids : ~ListedActive(id) /\ ListedActive(other)

\* Request r's save() runs in this step.
SaveStep(r) == inflight[r].st = "loaded" /\ inflight'[r] = Idle

View(d) == ApplyDefaults(d, now)
SeqUpdate(d, body) == ApplySet(d, UpdateDoc(body))
SeqDelete(d) == SaveApply(d, d)

\* The record after request r's save() is the record after the DELETE and the
\* update it overlapped, run one after the other in some order.
Serializable(r) ==
  LET id == inflight[r].id
      raw == inflight[r].raw
      over == inflight[r].overlap
  IN /\ over = <<>> => View(plans'[id]) = View(SeqDelete(plans[id]))
     /\ Len(over) = 1 =>
          View(plans'[id]) \in { View(SeqDelete(SeqUpdate(raw, over[1]))),
                                View(SeqUpdate(SeqDelete(raw), over[1])) }

\* Request r's save() keeps every field but isActive as the store has it.
KeepsUpdates(r) ==
  /\ Len(plans') = Len(plans)
  /\ \A i \in Ids : i # inflight[r].id => plans'[i] = plans[i]
  /\ \A k \in DocKeys \ {"isActive"} :
       View(plans'[inflight[r].id])[k] = View(plans[inflight[r].id])[k]

Answered200(r) == SaveStep(r) /\ last'.op = "delete" /\ last'.status = 200

====
